---- MODULE Spec2Model ----
(***************************************************************************)
(* State machine of the Model class of src/src/lib/model.ts: one instance, *)
(* its state record, the host frame clock (requestAnimationFrame /         *)
(* cancelAnimationFrame) and the public operations play, pause, stop,      *)
(* setTick, setParams, setData plus the clock callback advance.            *)
(*                                                                         *)
(* Encodings.  isPlaying (boolean | null) is one of "true", "false",       *)
(* "null".  timer (number | null) is a positive handle, or NoTimer for     *)
(* null (the code only tests its truthiness).  time (timestamp | null) is  *)
(* a timestamp >= 0, or NoTime for null.  cachedData is a function whose   *)
(* domain is the set of keys of the object.                                *)
(*                                                                         *)
(* Timestamps.  The code reads timestamps only in `timestamp - state.time` *)
(* (line 103), so they are counted from the anchor state.time: after each  *)
(* operation the origin is moved to state.time (to the last frame when     *)
(* time is null), and a distance beyond props.delay is kept as delay.      *)
(*                                                                         *)
(* An operation runs on a small heap h: h.st is the state object the       *)
(* running updateToTick captured in its parameter `state`, h.cur is        *)
(* this.state once stop() has replaced it (h.same = FALSE), h.pending the  *)
(* host's outstanding callbacks.  While h.same, this.state is h.st.        *)
(***************************************************************************)
EXTENDS Integers, Sequences, FiniteSets, TLC

\* ---------------------------------------------------------------- bounds
MaxTime == 2        \* maxTime of the instances of Spec
MaxDt == 2          \* longest gap between two frames
MaxPending == 2     \* outstanding callbacks play() may pile up

\* ------------------------------------------------------------- encodings
NoTimer == 0
NoTime == -1

VARIABLES
  props,      \* this.props, fixed at construction
  state,      \* this.state
  pending,    \* the host's outstanding callbacks, in request order; `due`
              \* marks those the frame in progress still has to run
  clock,      \* timestamp of the last frame the host ran
  last,       \* history: the last operation, its argument, the ticks it
              \* called updateData for, its render calls, the results it
              \* passed to complete()
  completed   \* history: the latest results passed to complete()

vars == <<props, state, pending, clock, last, completed>>

\* ------------------------------------------------------- user functions
\* The instance's initData: the start value the params name.
InitData(params) == params.start

ParamKeys == {"start", "goal"}

EmptyCache == [t \in {} |-> 0]

\* ------------------------------------------------------------- defaults
defaultProps ==
  [ clearsDataCacheOnReset |-> TRUE,
    clearsResultsCacheOnReset |-> TRUE,
    dataCacheSize |-> 0,
    delay |-> 0,
    initialTick |-> 0,
    maxTime |-> 100,
    minTime |-> 0,
    resetsOnChange |-> TRUE,
    resultsCacheSize |-> 0,
    ticksPerAnimation |-> 1 ]

\* {...a, ...b}
Spread(a, b) ==
  [k \in (DOMAIN a) \cup (DOMAIN b) |-> IF k \in DOMAIN b THEN b[k] ELSE a[k]]

\* The incrementer of the tests: initData() = 0, updateData = data + 1.
Incrementer ==
  [ initialParams |-> [start |-> 0, goal |-> 0], onGoal |-> "complete" ]

\* new Model(overrides) keeps this.props = {...defaultProps, ...overrides}
ModelProps(overrides) == Spread(Spread(defaultProps, Incrementer), overrides)

\* -------------------------------------------------------------- helpers
Min(a, b) == IF a < b THEN a ELSE b

Without(f, k) == [x \in (DOMAIN f) \ {k} |-> f[x]]

With(f, k, v) == [x \in (DOMAIN f) \cup {k} |-> IF x = k THEN v ELSE f[x]]

Ids(q) == {q[i].id : i \in 1..Len(q)}

\* window.cancelAnimationFrame(id): an unknown or fired handle is ignored
cancelAnimationFrame(q, id) == SelectSeq(q, LAMBDA e : e.id # id)

\* The handle window.requestAnimationFrame returns: one no live callback
\* and no field of this.state holds.
FreshId(q, held) == CHOOSE i \in 1..(Len(q) + 2) : i \notin Ids(q) /\ i # held

\* ---------------------------------------------------------------- reset
\* reset(props, state?): a new state record.  With a prior state and
\* clearsDataCacheOnReset false the new record holds the prior record's
\* cachedData object itself (line 232) and copies of its key set and queue.
reset(p, s, defined) ==
  LET params == IF defined THEN s.params ELSE p.initialParams
      tick == p.initialTick
      clearData == (~defined) \/ p.clearsDataCacheOnReset
      clearResults == p.clearsResultsCacheOnReset \/ ~defined
  IN [ cachedData |-> IF clearData THEN EmptyCache ELSE s.cachedData,
       cachedDataKeys |-> IF clearData THEN {} ELSE s.cachedDataKeys,
       cachedDataKeysQueue |-> IF clearData THEN <<>> ELSE s.cachedDataKeysQueue,
       results |-> IF clearResults THEN <<>> ELSE s.results,
       canPlay |-> TRUE,
       data |-> InitData(params),
       isPlaying |-> IF defined THEN s.isPlaying ELSE "null",
       maxTick |-> tick,
       params |-> params,
       tick |-> tick,
       time |-> NoTime,
       timer |-> NoTimer ]

\* checkCanPlay(tick, maxTime, state): the answer and the state it leaves.
checkCanPlay(tick, maxTime, s) ==
  IF s.canPlay = FALSE \/ tick > maxTime
  THEN [ok |-> FALSE, state |-> [s EXCEPT !.canPlay = FALSE, !.isPlaying = "false"]]
  ELSE [ok |-> TRUE, state |-> s]

\* ----------------------------------------------------------------- heap
\* st: the record an operation captured; cur: this.state once stop() has
\* replaced it; fresh: the record the latest reset() returned, as returned.
Heap(s, q) ==
  [ st |-> s, cur |-> s, same |-> TRUE, pending |-> q,
    calls |-> <<>>, renders |-> 0, done |-> <<>>, fresh |-> s ]

\* this.state
This(h) == IF h.same THEN h.st ELSE h.cur

SetThis(h, s) == IF h.same THEN [h EXCEPT !.st = s] ELSE [h EXCEPT !.cur = s]

\* this.state shares its cachedData object with the captured state
Aliased(h) == h.same \/ ~props.clearsDataCacheOnReset

\* stopAndCancelTimer(this.state)
stopAndCancelTimer(h) ==
  LET s == This(h)
  IN IF s.timer # NoTimer
     THEN [SetThis(h, [s EXCEPT !.timer = NoTimer])
             EXCEPT !.pending = cancelAnimationFrame(h.pending, s.timer)]
     ELSE h

\* Model.pause
pause(h) ==
  LET h1 == stopAndCancelTimer(h)
  IN SetThis(h1, [This(h1) EXCEPT !.isPlaying = "false"])

\* Model.stop: this.state becomes a new record
stop(h) ==
  LET h1 == pause(h)
      returned == reset(props, This(h1), TRUE)
  IN [h1 EXCEPT !.cur = returned, !.same = FALSE, !.fresh = returned]

\* complete(result, state, props, stop): `state` is the captured record
complete(result, h) ==
  LET s == h.st
      pushed == Append(s.results, result)
      results == IF props.resultsCacheSize > 0
                 THEN IF Len(pushed) > props.resultsCacheSize
                      THEN Tail(pushed) ELSE pushed
                 ELSE s.results
      s1 == [s EXCEPT !.results = results, !.canPlay = FALSE]
  IN stop([h EXCEPT !.st = s1, !.done = Append(h.done, result)])

\* The instance's updateData({data, tick, params, complete, stop, pause}):
\* returns data + 1; at the tick params.goal names (0: none) it first uses
\* the capability props.onGoal names.
updateData(h, data, tick) ==
  LET goal == h.st.params.goal
      h1 == [h EXCEPT !.calls = Append(h.calls, tick)]
      h2 == IF goal # 0 /\ tick = goal
            THEN CASE props.onGoal = "complete" -> complete(data + 1, h1)
                   [] props.onGoal = "stop" -> stop(h1)
                   [] props.onGoal = "pause" -> pause(h1)
                   [] OTHER -> h1
            ELSE h1
  IN [h |-> h2, data |-> data + 1]

\* A write to state.cachedData reaches every record holding that object.
WriteCachedData(h, cd) ==
  IF (~h.same) /\ Aliased(h)
  THEN [h EXCEPT !.st.cachedData = cd, !.cur.cachedData = cd]
  ELSE [h EXCEPT !.st.cachedData = cd]

\* The cache block entered whatever dataCacheSize is.
CacheTickUnguarded(h, tick, data) ==
  LET queue == Append(h.st.cachedDataKeysQueue, tick)
      fits == Len(queue) <= props.dataCacheSize
      toRemove == Head(queue)
      h1 == [h EXCEPT !.st.maxTick = tick,
                      !.st.cachedDataKeysQueue =
                         IF fits THEN queue ELSE Tail(queue),
                      !.st.cachedDataKeys =
                         IF fits THEN @ \cup {tick}
                         ELSE IF toRemove # 0 THEN @ \ {toRemove} ELSE @]
      cd == IF (~fits) /\ toRemove # 0
            THEN Without(h.st.cachedData, toRemove)
            ELSE h.st.cachedData
  IN WriteCachedData(h1, With(cd, tick, data))

\* lines 386-399: record the tick in the data cache
CacheTick(h, tick, data) ==
  IF props.dataCacheSize > 0
  THEN LET queue == Append(h.st.cachedDataKeysQueue, tick)
           fits == Len(queue) <= props.dataCacheSize
           toRemove == Head(queue)
           h1 == [h EXCEPT !.st.maxTick = tick,
                           !.st.cachedDataKeysQueue =
                              IF fits THEN queue ELSE Tail(queue),
                           !.st.cachedDataKeys =
                              IF fits THEN @ \cup {tick}
                              ELSE IF toRemove # 0 THEN @ \ {toRemove} ELSE @]
           cd == IF (~fits) /\ toRemove # 0
                 THEN Without(h.st.cachedData, toRemove)
                 ELSE h.st.cachedData
       IN WriteCachedData(h1, With(cd, tick, data))
  ELSE h

\* The while loop writing back the tick it started the iteration with.
RECURSIVE StepsStaleTick(_, _, _, _, _)
StepsStaleTick(h, tick, data, target, shouldStop) ==
  IF ~(tick < target)
  THEN h
  ELSE LET c == checkCanPlay(tick, props.maxTime, h.st)
           h0 == [h EXCEPT !.st = c.state]
       IN IF ~c.ok
          THEN h0
          ELSE LET t1 == tick + 1
                   u == updateData(h0, data, t1)
                   h1 == CacheTick(u.h, t1, u.data)
                   h2 == [h1 EXCEPT !.st.data = u.data,
                                    !.st.tick = tick,
                                    !.st.isPlaying =
                                       IF shouldStop THEN "false" ELSE @,
                                    !.renders = @ + 1]
               IN StepsStaleTick(h2, t1, u.data, target, shouldStop)

\* lines 362-408: the while loop, `tick` and `data` its locals
RECURSIVE Steps(_, _, _, _, _)
Steps(h, tick, data, target, shouldStop) ==
  IF ~(tick < target)
  THEN h
  ELSE LET c == checkCanPlay(tick, props.maxTime, h.st)
           h0 == [h EXCEPT !.st = c.state]
       IN IF ~c.ok
          THEN h0
          ELSE LET t1 == tick + 1
                   u == updateData(h0, data, t1)
                   h1 == CacheTick(u.h, t1, u.data)
                   h2 == [h1 EXCEPT !.st.data = u.data,
                                    !.st.tick = t1,
                                    !.st.isPlaying =
                                       IF shouldStop THEN "false" ELSE @,
                                    !.renders = @ + 1]
               IN Steps(h2, t1, u.data, target, shouldStop)

\* updateToTick resuming from state.tick whether or not maxTick is cached.
updateToTickFromTick(h, target, shouldStop) ==
  LET s == h.st
  IN IF target \in s.cachedDataKeys
     THEN h
     ELSE Steps(h, s.tick, s.data, target, shouldStop)

\* updateToTick recomputing an uncached target behind the current tick from
\* the initial data.
updateToTickReplaying(h, target, shouldStop) ==
  LET s == h.st
  IN IF target \in s.cachedDataKeys
     THEN h
     ELSE IF target < s.tick
          THEN Steps(h, props.initialTick, InitData(s.params), target,
                     shouldStop)
          ELSE LET tick == IF s.maxTick \in s.cachedDataKeys
                           THEN s.maxTick ELSE s.tick
               IN Steps(h, tick, s.data, target, shouldStop)

\* updateToTick({target, shouldStop, state: this.state, ...}).  On a cached
\* target lines 346-347 assign the locals `data` and `tick` only.
updateToTick(h, target, shouldStop) ==
  LET s == h.st
  IN IF target \in s.cachedDataKeys
     THEN h
     ELSE LET tick == IF s.maxTick \in s.cachedDataKeys
                      THEN s.maxTick ELSE s.tick
          IN Steps(h, tick, s.data, target, shouldStop)

\* Model.advance(timestamp), the clock callback
advance(h, timestamp) ==
  LET c == checkCanPlay(h.st.tick, props.maxTime, h.st)
      h0 == [h EXCEPT !.st = c.state]
  IN IF ~c.ok
     THEN h0
     ELSE LET h1 == IF h0.st.time = NoTime
                    THEN [h0 EXCEPT !.st.time = timestamp] ELSE h0
              h2 == IF timestamp - h1.st.time >= props.delay
                    THEN updateToTick([h1 EXCEPT !.st.time = timestamp],
                                      h1.st.tick + props.ticksPerAnimation,
                                      FALSE)
                    ELSE h1
              s == This(h2)
              q == IF s.timer # NoTimer
                   THEN cancelAnimationFrame(h2.pending, s.timer)
                   ELSE h2.pending
              id == FreshId(q, s.timer)
          IN IF s.isPlaying = "true"
             THEN [SetThis(h2, [s EXCEPT !.timer = id])
                     EXCEPT !.pending = Append(q, [id |-> id, due |-> FALSE])]
             ELSE h2

\* Model.play
play(h) ==
  LET s == This(h)
      id == FreshId(h.pending, s.timer)
  IN [SetThis(h, [s EXCEPT !.isPlaying = "true", !.timer = id])
        EXCEPT !.pending = Append(h.pending, [id |-> id, due |-> FALSE])]

\* Model.setTick
setTick(h, target) == updateToTick(stopAndCancelTimer(h), target, TRUE)

\* Model.setParams: the record reset() returns is dropped (line 148)
setParams(h, updatedParams) ==
  LET s == This(h)
      merged == SetThis(h, [s EXCEPT !.params = Spread(s.params, updatedParams)])
      returned == reset(props, This(merged), TRUE)
  IN IF props.resetsOnChange
     THEN merged    \* `returned` is assigned to nothing; reset() writes nothing
     ELSE merged

\* Model.setData
setData(h, data) ==
  LET h1 == stopAndCancelTimer(SetThis(h, [This(h) EXCEPT !.data = data]))
  IN SetThis(h1, [This(h1) EXCEPT !.isPlaying = "false",
                                  !.tick = props.initialTick])

\* ------------------------------------------------------------- history
\* the results passed to complete() so far, the latest
\* resultsCacheSize + 1 of them (none when results are not kept)
Remember(done) ==
  LET all == completed \o done
      keep == IF props.resultsCacheSize > 0
              THEN props.resultsCacheSize + 1 ELSE 0
  IN IF Len(all) > keep
     THEN SubSeq(all, Len(all) - keep + 1, Len(all)) ELSE all

\* The state an operation leaves: this.state, the host's callbacks, and
\* the record of what the operation was and invoked.
Leaves(h, op, arg, now) ==
  /\ state' = [This(h) EXCEPT !.time = IF @ = NoTime THEN NoTime ELSE 0]
  /\ clock' = IF This(h).time = NoTime THEN 0
              ELSE Min(now - This(h).time, props.delay)
  /\ pending' = h.pending
  /\ last' = [op |-> op, arg |-> arg,
              calls |-> h.calls, renders |-> h.renders, done |-> h.done]
  /\ completed' = Remember(h.done)
  /\ props' = props

\* ---------------------------------------------------------------- clock
\* A frame runs every callback requested before it, with one timestamp;
\* no public call runs between two callbacks of a frame.
FrameInProgress == pending # <<>> /\ Head(pending).due

\* a new frame has every callback requested before it to run
NewFrame(q) == [i \in 1..Len(q) |-> [q[i] EXCEPT !.due = TRUE]]

\* --------------------------------------------------------------- inputs
\* setTick arguments: from behind initialTick to beyond the last tick
Targets == (props.initialTick - 1)..(props.maxTime + 2)

\* setParams arguments: any of the keys, start 0 or 1, goal 0 or 2
ParamUpdates ==
  UNION { { [k \in keys |-> IF k = "goal" THEN 2 * u[k] ELSE u[k]] :
              u \in [keys -> {0, 1}] } : keys \in SUBSET ParamKeys }

\* setData arguments
DataInputs == {1}

\* -------------------------------------------------------------- actions
Play ==
  /\ ~FrameInProgress
  /\ Len(pending) < MaxPending
  /\ Leaves(play(Heap(state, pending)), "play", 0, clock)

Pause ==
  /\ ~FrameInProgress
  /\ Leaves(pause(Heap(state, pending)), "pause", 0, clock)

Stop ==
  /\ ~FrameInProgress
  /\ Leaves(stop(Heap(state, pending)), "stop", 0, clock)

SetTick(target) ==
  /\ ~FrameInProgress
  /\ Leaves(setTick(Heap(state, pending), target), "setTick", target, clock)

SetParams(updatedParams) ==
  /\ ~FrameInProgress
  /\ Leaves(setParams(Heap(state, pending), updatedParams),
            "setParams", 0, clock)

SetData(data) ==
  /\ ~FrameInProgress
  /\ Leaves(setData(Heap(state, pending), data), "setData", data, clock)

\* The host runs the oldest outstanding callback, in a frame of timestamp
\* ts: the frame in progress, or a later one.
Fire ==
  /\ pending # <<>>
  /\ \E ts \in clock..(clock + MaxDt) :
       /\ IF FrameInProgress THEN ts = clock ELSE ts > clock
       /\ LET q == IF FrameInProgress THEN Tail(pending)
                   ELSE NewFrame(Tail(pending))
          IN Leaves(advance(Heap(state, q), ts), "advance", ts - clock, ts)

\* -------------------------------------------------------- configurations
\* The instances of Spec: the defaults with maxTime lowered, and one or
\* two fields more set.
Configs ==
  { ModelProps([maxTime |-> MaxTime]),
    ModelProps([maxTime |-> MaxTime, resetsOnChange |-> FALSE]),
    ModelProps([maxTime |-> MaxTime, onGoal |-> "pause"]),
    ModelProps([maxTime |-> MaxTime, delay |-> 2, ticksPerAnimation |-> 2]),
    ModelProps([maxTime |-> MaxTime, dataCacheSize |-> 1]),
    ModelProps([maxTime |-> MaxTime, dataCacheSize |-> 1, initialTick |-> -1]),
    ModelProps([maxTime |-> MaxTime, dataCacheSize |-> 1,
                clearsDataCacheOnReset |-> FALSE, onGoal |-> "stop"]),
    ModelProps([maxTime |-> MaxTime, dataCacheSize |-> 2,
                clearsDataCacheOnReset |-> FALSE]),
    ModelProps([maxTime |-> MaxTime, resultsCacheSize |-> 2]),
    ModelProps([maxTime |-> MaxTime, resultsCacheSize |-> 2,
                clearsResultsCacheOnReset |-> FALSE]) }

\* The instances of SpecRun: the incrementer of the tests, maxTime as the
\* tests set it, with and without a data cache, a delay, a longer stride.
TestMaxTime == 10

RunConfigs ==
  { ModelProps([maxTime |-> TestMaxTime, dataCacheSize |-> k,
                delay |-> d, ticksPerAnimation |-> n]) :
      k \in 0..2, d \in {0, 2}, n \in 1..2 }

InitWith(configs) ==
  /\ props \in configs
  /\ state = reset(props, [params |-> props.initialParams], FALSE)
  /\ pending = <<>>
  /\ clock = 0
  /\ last = [op |-> "new", arg |-> 0,
             calls |-> <<>>, renders |-> 0, done |-> <<>>]
  /\ completed = <<>>

Init == InitWith(Configs)

Next ==
  \/ Play
  \/ Pause
  \/ Stop
  \/ \E target \in Targets : SetTick(target)
  \/ \E updatedParams \in ParamUpdates : SetParams(updatedParams)
  \/ \E data \in DataInputs : SetData(data)
  \/ Fire

Spec == Init /\ [][Next]_vars

\* A new instance that is played once and then left to the host clock.
InitRun == InitWith(RunConfigs)

PlayFresh == state.isPlaying = "null" /\ Play

NextRun ==
  \/ PlayFresh
  \/ Fire

SpecRun == InitRun /\ [][NextRun]_vars

\* A new instance whose first call is one setTick.
SeekFresh(target) == last.op = "new" /\ SetTick(target)

NextSeek == \E target \in Targets : SeekFresh(target)

SpecSeek == InitRun /\ [][NextSeek]_vars

\* One session: public calls other than play(), then play(), then nothing
\* but the host's callbacks.
Started == last.op \in {"play", "advance"}

PlayOnce == ~Started /\ Play

Prepare ==
  /\ ~Started
  /\ \/ Pause
     \/ Stop
     \/ \E target \in Targets : SetTick(target)
     \/ \E updatedParams \in ParamUpdates : SetParams(updatedParams)
     \/ \E data \in DataInputs : SetData(data)

NextPlayOnce == Prepare \/ PlayOnce \/ Fire

SpecPlayOnce == Init /\ [][NextPlayOnce]_vars

\* The host runs every callback it was asked for: weak fairness of Fire,
\* WF_vars(Fire), with ENABLED <<Fire>>_vars written as the state predicate
\* it equals.  Fire is enabled exactly when a callback is outstanding, and
\* a Fire step always changes vars: it removes the callback it runs, and a
\* callback it requests is not due yet.
HostRunsCallbacks == []<>(pending = << >>) \/ []<><<Fire>>_vars

\* The run of SpecRun on such a host
SpecLive == InitRun /\ [][NextRun]_vars /\ HostRunsCallbacks

\* ================================================================ claims
ToSet(q) == {q[i] : i \in 1..Len(q)}

Outstanding == Len(pending)

\* C1 (cache consistency): with dataCacheSize = k > 0, in every reachable
\* state cachedDataKeys is exactly the set of the ticks in
\* cachedDataKeysQueue, and the queue holds at most k ticks.
C1_CacheConsistency ==
  props.dataCacheSize > 0 =>
    /\ state.cachedDataKeys = ToSet(state.cachedDataKeysQueue)
    /\ Len(state.cachedDataKeysQueue) <= props.dataCacheSize

\* C2 (FIFO eviction): with dataCacheSize = k > 0, once a fresh instance
\* has stepped forward through the k + 1 ticks after initialTick, the
\* first of them is in neither cachedDataKeys nor cachedData, and each
\* of the k others, the latest included, is in both.
C2_FifoEviction ==
  LET k == props.dataCacheSize
      first == props.initialTick + 1
  IN (k > 0 /\ state.tick = props.initialTick + k + 1) =>
       /\ first \notin state.cachedDataKeys
       /\ first \notin DOMAIN state.cachedData
       /\ \A t \in (first + 1)..state.tick :
            t \in state.cachedDataKeys /\ t \in DOMAIN state.cachedData

\* The configuration of the tests: the incrementer, maxTime = 10, every
\* other field at its default.
IsTestConfig == props = ModelProps([maxTime |-> TestMaxTime])

\* C3 (run to completion): for the incrementer with maxTime = 10, after
\* play() and clock callbacks until none remains scheduled, tick = 10,
\* data = 10, isPlaying is false and canPlay is false.
C3_RunToCompletion ==
  (IsTestConfig /\ state.isPlaying # "null" /\ pending = <<>>) =>
    /\ state.tick = TestMaxTime
    /\ state.data = TestMaxTime
    /\ state.isPlaying = "false"
    /\ state.canPlay = FALSE

\* C4 (sticky stop): in every reachable state with tick > maxTime canPlay
\* is false, and from such a state play() and a clock callback leave
\* canPlay false and tick unchanged.
C4_StickyStop ==
  [][ /\ (state'.tick > props.maxTime => state'.canPlay = FALSE)
      /\ (state.tick > props.maxTime /\ last'.op \in {"play", "advance"}) =>
           (state'.canPlay = FALSE /\ state'.tick = state.tick) ]_vars

\* C5 (scheduled-callback count): in every reachable state at most one
\* clock callback is outstanding, and exactly one while isPlaying is true.
C5_OneCallback ==
  /\ Outstanding <= 1
  /\ state.isPlaying = "true" => Outstanding = 1

\* C6 (completion signal): when the transition function called
\* complete(result) during a setTick or a clock callback, the operation
\* leaves canPlay false, isPlaying false and no callback outstanding; and
\* play() and clock callbacks keep a false canPlay false.
C6_CompletionSignal ==
  [][ /\ (last'.op \in {"setTick", "advance"} /\ last'.done # <<>>) =>
           /\ state'.canPlay = FALSE
           /\ state'.isPlaying = "false"
           /\ pending' = <<>>
      /\ (state.canPlay = FALSE /\ last'.op \in {"play", "advance"}) =>
           state'.canPlay = FALSE ]_vars

\* the n latest of the results passed to complete(), oldest first
Latest(n) == SubSeq(completed, Len(completed) - n + 1, Len(completed))

\* C7 (results bound): with resultsCacheSize = n > 0, once more than n
\* runs have ended by complete(result), results is the n latest of those
\* results, oldest first; and results never holds more than n entries.
C7_ResultsBound ==
  LET n == props.resultsCacheSize
  IN n > 0 =>
       /\ Len(state.results) <= n
       /\ (last.done # <<>> /\ Len(completed) > n) => state.results = Latest(n)

\* C8 (fast-path seek): setTick(target) with target in cachedDataKeys
\* leaves tick = target and data = cachedData[target].
C8_FastPathSeek ==
  [][ \A target \in Targets :
        (SetTick(target) /\ target \in state.cachedDataKeys
                         /\ target \in DOMAIN state.cachedData) =>
          /\ state'.tick = target
          /\ state'.data = state.cachedData[target] ]_vars

\* C9 (setTick halts playback): after setTick(target), for every target,
\* isPlaying is not true and no callback is outstanding.
C9_SetTickHalts ==
  last.op = "setTick" => (state.isPlaying # "true" /\ Outstanding = 0)

\* C10 (setParams reset): with resetsOnChange, setParams(update) leaves
\* params = the old params overridden by update and the state reset()
\* derives from them: tick = maxTick = initialTick, data =
\* initData(params), canPlay true, time and timer unset, and each cache
\* emptied when its clears-on-reset flag is true.
C10_SetParamsResets ==
  [][ \A updatedParams \in ParamUpdates :
        (props.resetsOnChange /\ SetParams(updatedParams)) =>
          /\ state'.params = Spread(state.params, updatedParams)
          /\ state'.tick = props.initialTick
          /\ state'.maxTick = props.initialTick
          /\ state'.data = InitData(state'.params)
          /\ state'.canPlay = TRUE
          /\ state'.time = NoTime
          /\ state'.timer = NoTimer
          /\ props.clearsDataCacheOnReset =>
               /\ state'.cachedData = EmptyCache
               /\ state'.cachedDataKeys = {}
               /\ state'.cachedDataKeysQueue = <<>>
          /\ props.clearsResultsCacheOnReset => state'.results = <<>> ]_vars

\* C11 (cancel before mutate): after setTick, pause, stop, setParams or
\* setData returns, no clock callback scheduled before the call is still
\* outstanding (none of these calls schedules one).
C11_CancelBeforeMutate ==
  last.op \in {"setTick", "pause", "stop", "setParams", "setData"} =>
    Outstanding = 0

\* C12 (stop flag implication): in every reachable state canPlay = false
\* implies isPlaying is not true, also after a play() that follows the
\* stop condition tripping.
C12_StopFlagImplication ==
  state.canPlay = FALSE => state.isPlaying # "true"

\* C13 (manual seek on a fresh instance): for the incrementer with
\* maxTime = 10 and a target n with 0 <= n <= maxTime, setTick(n) as the
\* first call on a new instance leaves tick = n and data = n, n
\* applications of the transition function to the initial data, and
\* isPlaying not true.
C13_ManualSeekFresh ==
  (last.op = "setTick" /\ 0 <= last.arg /\ last.arg <= props.maxTime) =>
    /\ state.tick = last.arg
    /\ state.data = last.arg
    /\ Len(last.calls) = last.arg
    /\ state.isPlaying # "true"

\* setTick(5) has run on the new incrementer of the tests
C13_Witness ==
  /\ IsTestConfig
  /\ last.op = "setTick"
  /\ last.arg = 5
  /\ state.data = 5

\* The tick an uncached seek resumes from: maxTick if it is cached, else
\* the current tick.
ResumePoint ==
  IF state.maxTick \in state.cachedDataKeys THEN state.maxTick ELSE state.tick

\* The stop condition trips at none of the iterations that lead to target:
\* canPlay holds at the call, no tick passed to checkCanPlay exceeds maxTime,
\* and no tick before target is one where the transition function calls
\* complete().
NoTripBefore(target) ==
  /\ state.canPlay
  /\ target - 1 <= props.maxTime
  /\ ~ /\ props.onGoal = "complete"
       /\ state.params.goal # 0
       /\ state.params.goal \in (ResumePoint + 1)..(target - 1)

\* C14 (replay vs recompute): setTick(target) with target in the data cache
\* invokes the transition function zero times; setTick(target) with target
\* uncached and ahead of the resume point invokes it exactly target - resume
\* times, once for each tick resume+1..target in increasing order, provided
\* the stop condition does not trip before target.
C14_ReplayVsRecompute ==
  [][ last'.op = "setTick" =>
        LET target == last'.arg
        IN /\ target \in state.cachedDataKeys => last'.calls = << >>
           /\ ( /\ target \notin state.cachedDataKeys
                /\ target > ResumePoint
                /\ NoTripBefore(target) ) =>
                last'.calls = [i \in 1..(target - ResumePoint) |->
                                 ResumePoint + i] ]_vars

\* setTick(3) resumed from the cached maxTick 2 while the current tick was
\* behind it: one invocation, for tick 3
C14_Witness ==
  /\ last.op = "setTick"
  /\ last.arg = 3
  /\ last.calls = << 3 >>
  /\ state.tick = 3
  /\ state.maxTick = 3
  /\ state.params = props.initialParams
  /\ state.data = 2
  /\ state.cachedDataKeysQueue = << 2, 3 >>

\* C15 (stop): after stop(), from any reachable state, isPlaying is false,
\* no callback is outstanding, time and timer are unset, canPlay is true,
\* tick = maxTick = initialTick, params are unchanged and data =
\* initData(params); the data cache is empty if clearsDataCacheOnReset and
\* otherwise equal to the cache before the call, and likewise results under
\* clearsResultsCacheOnReset.
C15_StopPostconditions ==
  [][ Stop =>
        /\ state'.isPlaying = "false"
        /\ Len(pending') = 0
        /\ state'.time = NoTime
        /\ state'.timer = NoTimer
        /\ state'.canPlay = TRUE
        /\ state'.tick = props.initialTick
        /\ state'.maxTick = props.initialTick
        /\ state'.params = state.params
        /\ state'.data = InitData(state.params)
        /\ IF props.clearsDataCacheOnReset
           THEN /\ state'.cachedData = EmptyCache
                /\ state'.cachedDataKeys = {}
                /\ state'.cachedDataKeysQueue = << >>
           ELSE /\ state'.cachedData = state.cachedData
                /\ state'.cachedDataKeys = state.cachedDataKeys
                /\ state'.cachedDataKeysQueue = state.cachedDataKeysQueue
        /\ IF props.clearsResultsCacheOnReset
           THEN state'.results = << >>
           ELSE state'.results = state.results ]_vars

\* C16 (pause): pause(), from any reachable state, leaves tick, data,
\* params, maxTick, canPlay, the data cache and results unchanged, sets
\* isPlaying to false and leaves no callback outstanding; after a following
\* play() the next applied step computes tick + 1 from the data held at the
\* pause.
C16_PauseFrame ==
  [][ Pause =>
        /\ state'.tick = state.tick
        /\ state'.data = state.data
        /\ state'.params = state.params
        /\ state'.maxTick = state.maxTick
        /\ state'.canPlay = state.canPlay
        /\ state'.cachedData = state.cachedData
        /\ state'.cachedDataKeys = state.cachedDataKeys
        /\ state'.cachedDataKeysQueue = state.cachedDataKeysQueue
        /\ state'.results = state.results
        /\ state'.isPlaying = "false"
        /\ Len(pending') = 0 ]_vars

\* C17 (disabled data cache): with dataCacheSize = 0, cachedData,
\* cachedDataKeys and cachedDataKeysQueue are empty in every reachable
\* state, after any number of ticks and any sequence of operations.
C17_DisabledCacheEmpty ==
  props.dataCacheSize = 0 =>
    /\ state.cachedData = EmptyCache
    /\ state.cachedDataKeys = {}
    /\ state.cachedDataKeysQueue = << >>

\* a clock callback has applied a step past tick 1 with the cache disabled
C17_Witness ==
  /\ props.dataCacheSize = 0
  /\ last.op = "advance"
  /\ last.calls # << >>
  /\ state.tick > 1

\* C18 (backward seek to an uncached tick): setTick(target) with target
\* less than the current tick and not in cachedDataKeys leaves tick, data,
\* maxTick, canPlay, params, the data cache and results unchanged and
\* invokes neither the transition function nor the render hook.
C18_BackwardSeekNoOp ==
  [][ ( /\ last'.op = "setTick"
        /\ last'.arg < state.tick
        /\ last'.arg \notin state.cachedDataKeys ) =>
        /\ state'.tick = state.tick
        /\ state'.data = state.data
        /\ state'.maxTick = state.maxTick
        /\ state'.canPlay = state.canPlay
        /\ state'.params = state.params
        /\ state'.cachedData = state.cachedData
        /\ state'.cachedDataKeys = state.cachedDataKeys
        /\ state'.cachedDataKeysQueue = state.cachedDataKeysQueue
        /\ state'.results = state.results
        /\ last'.calls = << >>
        /\ last'.renders = 0 ]_vars

\* setTick(1) has run at tick 2 or later with tick 1 not in the cache
C18_Witness ==
  /\ last.op = "setTick"
  /\ last.arg = 1
  /\ state.tick >= 2
  /\ 1 \notin state.cachedDataKeys
  /\ last.calls = << >>

\* playback has halted: not playing, stop condition latched, and no
\* callback outstanding
Halted ==
  /\ state.isPlaying = "false"
  /\ state.canPlay = FALSE
  /\ Outstanding = 0

\* the state record without the handle of the callback last requested
SansTimer(s) == [s EXCEPT !.timer = NoTimer]

\* C19 (playback eventually halts): with finite maxTime, ticksPerAnimation
\* >= 1 and a transition function that never calls pause, stop or
\* complete, after play() and no further public call, a host that keeps
\* running each requested callback with increasing timestamps brings the
\* instance to a state with isPlaying false, canPlay false and no callback
\* outstanding, and the instance stays there.  A finite run refutes it
\* when a callback leaves the instance playing with the state record (the
\* timer handle aside) and the time waited exactly as it found them: the
\* callback it requested finds the same, and so on for ever.  Stated so,
\* the claim is that no callback after play() does that.
C19_PlaybackHalts ==
  [][ (Fire /\ state.params.goal = 0) =>
        ~ /\ state'.isPlaying = "true"
          /\ SansTimer(state') = SansTimer(state)
          /\ clock' = clock ]_vars

\* C19 on a new instance, as the liveness property it is: once playing,
\* the instance eventually halts for good.
C19_NewInstanceHalts ==
  [](state.isPlaying = "true" => <>[]Halted)

\* C20 (reset does not alias the prior cache): with clearsDataCacheOnReset
\* false and dataCacheSize > 0, the record reset() returns shares no cache
\* structure with the prior record: when the transition function calls stop()
\* or complete() during a setTick, the writes the stepper makes afterwards
\* leave cachedData, cachedDataKeys and cachedDataKeysQueue of the new record
\* as reset() returned them, and its cachedData keys stay equal to its
\* cachedDataKeys.
C20_ResetDoesNotAlias ==
  (~props.clearsDataCacheOnReset /\ props.dataCacheSize > 0) =>
    \A target \in Targets :
      LET h == setTick(Heap(state, pending), target)
      IN ~h.same =>
           /\ This(h).cachedData = h.fresh.cachedData
           /\ This(h).cachedDataKeys = h.fresh.cachedDataKeys
           /\ This(h).cachedDataKeysQueue = h.fresh.cachedDataKeysQueue
           /\ (DOMAIN h.fresh.cachedData = h.fresh.cachedDataKeys) =>
                (DOMAIN This(h).cachedData = This(h).cachedDataKeys)

\* The step ran reset() with clearsDataCacheOnReset: a stop() call, or a
\* transition function that called stop() or complete() at the goal tick.
ClearsCache ==
  /\ props.clearsDataCacheOnReset
  /\ \/ last'.op = "stop"
     \/ /\ props.onGoal \in {"complete", "stop"}
        /\ state.params.goal # 0
        /\ \E i \in DOMAIN last'.calls : last'.calls[i] = state.params.goal

\* C21 (maxTick is the high-water mark of the cache): with dataCacheSize >
\* 0, between two cache clears maxTick never decreases and is greater than
\* or equal to every tick present in cachedData, for any sequence of
\* operations, setData() followed by a forward setTick() included.
C21_MaxTickHighWater ==
  [][ props.dataCacheSize > 0 =>
        /\ ~ClearsCache => state'.maxTick >= state.maxTick
        /\ \A t \in DOMAIN state'.cachedData : state'.maxTick >= t ]_vars

\* C22 (cache mapping bound): with dataCacheSize = k > 0 and any integer
\* initialTick, negative ones included so that tick 0 itself gets cached,
\* cachedData never holds more than k entries, and every tick popped from
\* the head of the queue is removed from both cachedDataKeys and cachedData.
C22_CacheMappingBound ==
  [][ props.dataCacheSize > 0 =>
        /\ Cardinality(DOMAIN state'.cachedData) <= props.dataCacheSize
        /\ \A t \in ToSet(state.cachedDataKeysQueue)
                      \ ToSet(state'.cachedDataKeysQueue) :
             /\ t \notin state'.cachedDataKeys
             /\ t \notin DOMAIN state'.cachedData ]_vars

\* ts - time as the callback of the step sees it: 0 when time was unset and
\* is anchored to ts, else the time waited so far plus the gap to this frame
Elapsed == IF state.time = NoTime THEN 0 ELSE clock + last'.arg

\* C23 (delay throttling): a clock callback with timestamp ts that passes
\* the stop condition applies a step exactly when ts - time >= delay, time
\* being anchored to ts first if unset; when it applies a step it sets time
\* = ts and advances tick by ticksPerAnimation, by fewer only if the stop
\* condition trips on the way; when it does not, tick, data and caches are
\* unchanged.  Consecutive applied steps are then at least delay apart.
\* Stated for a transition function that uses none of pause, stop and
\* complete.
C23_DelayThrottling ==
  [][ ( /\ last'.op = "advance"
        /\ state.canPlay
        /\ state.tick <= props.maxTime
        /\ state.params.goal = 0 ) =>
        IF Elapsed >= props.delay
        THEN /\ state'.time = 0
             /\ clock' = 0
             /\ \/ state'.tick = state.tick + props.ticksPerAnimation
                \/ /\ state'.canPlay = FALSE
                   /\ state'.tick >= state.tick
                   /\ state'.tick < state.tick + props.ticksPerAnimation
        ELSE /\ last'.calls = << >>
             /\ state'.tick = state.tick
             /\ state'.data = state.data
             /\ state'.cachedData = state.cachedData
             /\ state'.cachedDataKeys = state.cachedDataKeys
             /\ state'.cachedDataKeysQueue = state.cachedDataKeysQueue ]_vars

====
